---- MODULE Spec2Model ----
(***************************************************************************)
(* vimeo-mcp-lite: the tool dispatcher of src/index.ts, its nine handlers, *)
(* the two minimal-shape extractors and the promise returned by            *)
(* vimeoRequest, as one state machine.                                     *)
(*                                                                         *)
(* JavaScript values: strings are strings, numbers are integers, arrays    *)
(* are sequences, objects are records.  `undefined` is the empty tuple and *)
(* a defined value v is <<v>>, so that a property lookup always has a      *)
(* value.  An object handed to JSON.stringify loses the keys whose value   *)
(* is undefined; Obj/Field build objects that way.                         *)
(*                                                                         *)
(* The handlers share no mutable state (only the read-only credential), so *)
(* one invocation at a time shows everything an interleaving of several    *)
(* would: the model serves calls one after the other.                      *)
(***************************************************************************)
EXTENDS Integers, Sequences, FiniteSets, TLC

VARIABLES pc, tool, args, locals, inflight, sent, got, outcome, result,
          thrown, recovered

vars == <<pc, tool, args, locals, inflight, sent, got, outcome, result,
          thrown, recovered>>

(***************************************************************************)
(* Bounds of the model                                                     *)
(***************************************************************************)
\* The upstream serves at most this many full folder pages, then a short one.
MaxPages == 2

(***************************************************************************)
(* JavaScript values                                                       *)
(***************************************************************************)
Undefined == <<>>
Def(v) == <<v>>
IsDef(o) == o # Undefined
Val(o) == o[1]

\* obj.key where the key may be missing
Get(obj, key) == IF key \in DOMAIN obj THEN Def(obj[key]) ELSE Undefined

\* truthiness of an optional string / number / array
TruthyStr(o) == IsDef(o) /\ Val(o) # ""
TruthyNum(o) == IsDef(o) /\ Val(o) # 0
TruthyArr(o) == IsDef(o)

\* a || b for strings and numbers
OrStr(o, dflt) == IF TruthyStr(o) THEN Val(o) ELSE dflt
OrNum(o, dflt) == IF TruthyNum(o) THEN Val(o) ELSE dflt

\* `${x}` of an optional string
Tmpl(o) == IF IsDef(o) THEN Val(o) ELSE "undefined"

Min(a, b) == IF a < b THEN a ELSE b

\* one key of an object literal; JSON.stringify drops an undefined value
Field(key, o) == IF IsDef(o) THEN [k \in {key} |-> Val(o)] ELSE <<>>

Char(s, i) == SubSeq(s, i, i)

\* s.split(sep), sep a single character
RECURSIVE Split(_, _)
Split(s, sep) ==
    IF \A i \in 1..Len(s) : Char(s, i) # sep
    THEN <<s>>
    ELSE LET i == CHOOSE k \in 1..Len(s) :
                      /\ Char(s, k) = sep
                      /\ \A j \in 1..(k - 1) : Char(s, j) # sep
         IN  <<SubSeq(s, 1, i - 1)>> \o Split(SubSeq(s, i + 1, Len(s)), sep)

\* arr.pop() of a non-empty array
Pop(arr) == arr[Len(arr)]

\* s.includes(sub)
Includes(s, sub) ==
    \E i \in 1..(Len(s) - Len(sub) + 1) : SubSeq(s, i, i + Len(sub) - 1) = sub

\* encodeURIComponent on the characters the model uses
EncodeChar(c) == CASE c = " " -> "%20"
                   [] c = "&" -> "%26"
                   [] c = "/" -> "%2F"
                   [] OTHER   -> c

RECURSIVE encodeURIComponent(_)
encodeURIComponent(s) ==
    IF s = "" THEN ""
    ELSE EncodeChar(Char(s, 1)) \o encodeURIComponent(SubSeq(s, 2, Len(s)))

\* TypeError raised by reading a property of undefined or null
TypeErr(prop, of) ==
    "Cannot read properties of " \o of \o " (reading '" \o prop \o "')"

\* JSON null; a nullable object is Null or Obj(o)
Null == <<>>
Obj(o) == <<o>>

\* x?.key for an optional, nullable object x
Chain(x, key) ==
    IF IsDef(x) /\ Val(x) # Null THEN Get(Val(Val(x)), key) ELSE Undefined

\* x?.key for an optional plain object x
ChainObj(x, key) == IF IsDef(x) THEN Get(Val(x), key) ELSE Undefined

(***************************************************************************)
(* Minimal-shape extractors                                                *)
(***************************************************************************)
\* resource.uri || "", then .split("/").pop() || ""
UriTail(res) ==
    LET uri == OrStr(Get(res, "uri"), "")
    IN  OrStr(Def(Pop(Split(uri, "/"))), "")

\* x?.split("/").pop(), without the || "" of the extractors
UriTailInline(uri) ==
    IF IsDef(uri) THEN Def(Pop(Split(Val(uri), "/"))) ELSE Undefined

\* x?.split("T")[0]
DatePart(created_time) ==
    IF IsDef(created_time) THEN Def(Split(Val(created_time), "T")[1])
    ELSE Undefined

\* folder.metadata?.connections?.videos?.total
VideosTotal(folder) ==
    ChainObj(ChainObj(ChainObj(Get(folder, "metadata"), "connections"),
                      "videos"), "total")

extractVideoMinimal(video) ==
    [id       |-> UriTail(video),
     name     |-> OrStr(Get(video, "name"), "Untitled"),
     duration |-> OrNum(Get(video, "duration"), 0),
     created  |-> OrStr(DatePart(Get(video, "created_time")), "")]
    @@ Field("folder", Chain(Get(video, "parent_folder"), "name"))

extractFolderMinimal(folder) ==
    [id          |-> UriTail(folder),
     name        |-> OrStr(Get(folder, "name"), "Untitled"),
     video_count |-> OrNum(VideosTotal(folder), 0)]

\* list.map(extractVideoMinimal), list.map(extractFolderMinimal)
MinimalVideos(list) == [i \in 1..Len(list) |-> extractVideoMinimal(list[i])]
MinimalFolders(list) == [i \in 1..Len(list) |-> extractFolderMinimal(list[i])]

(***************************************************************************)
(* Remote API client                                                       *)
(* A request is what vimeoRequest was called with.  Its promise is either  *)
(* rejected (transport error) or resolved with {status, data}, data being  *)
(* the parsed body: {} for an empty or unparseable body.                   *)
(***************************************************************************)
Req(path, method, body) == [path |-> path, method |-> method, body |-> body]

\* the body as received: "" , text that is not JSON, or JSON text of `value`
EmptyBody == [raw |-> "empty", value |-> Null]
MalformedBody == [raw |-> "malformed", value |-> Null]
JsonBody(value) == [raw |-> "json", value |-> value]

\* data ? JSON.parse(data) : {}, with the catch of a parse failure
ParseBody(body) == IF body.raw = "json" THEN body.value ELSE Obj(<<>>)

\* resolve({status: res.statusCode || 0, data: ...})
Resolved(statusCode, body) ==
    [kind |-> "resolve", status |-> statusCode, data |-> ParseBody(body)]

\* req.on("error", reject)
Rejected(msg) == [kind |-> "reject", msg |-> msg]

\* res.data of a response whose data is an object
D(res) == Val(res.data)

(***************************************************************************)
(* What a piece of handler code does next: return a value, throw, or await *)
(* one more request with its local variables saved.                        *)
(***************************************************************************)
Return(value) == [kind |-> "return", value |-> value]
Throw(msg) == [kind |-> "throw", msg |-> msg]
\* `reqs`: the requests issued before the handler suspends on the first of them
Await(reqs, loc) == [kind |-> "await", reqs |-> reqs, locals |-> loc]

(***************************************************************************)
(* Tool handlers.  Each handler is its synchronous start, up to its first  *)
(* await, and one continuation per awaited response.  `a` is the arguments *)
(* object, `given` whether the call carried one, `loc` the saved locals.   *)
(***************************************************************************)

\* ---- list_folders ----
ListFoldersLoop(loc) ==
    IF loc.hasMore
    THEN Await(<<Req("/me/projects?per_page=100&page=" \o ToString(loc.page),
                     "GET", Undefined)>>, loc)
    ELSE Return([total |-> Len(loc.folders), folders |-> loc.folders])

handleListFolders ==
    ListFoldersLoop([folders |-> <<>>, page |-> 1, hasMore |-> TRUE])

\* folders reassigned with each page instead of pushed to
ListFoldersPageReassign(loc, res) ==
    IF res.status = 200 /\ res.data = Null
    THEN Throw(TypeErr("data", "null"))
    ELSE IF res.status = 200 /\ TruthyArr(Get(D(res), "data"))
    THEN LET items == D(res).data
         IN  ListFoldersLoop(
                 [folders |-> MinimalFolders(items),
                  page    |-> loc.page + 1,
                  hasMore |-> Len(items) = 100])
    ELSE ListFoldersLoop([loc EXCEPT !.hasMore = FALSE])

ListFoldersPage(loc, res) ==
    IF res.status = 200 /\ res.data = Null
    THEN Throw(TypeErr("data", "null"))
    ELSE IF res.status = 200 /\ TruthyArr(Get(D(res), "data"))
    THEN LET items == D(res).data
         IN  ListFoldersLoop(
                 [folders |-> loc.folders \o MinimalFolders(items),
                  page    |-> loc.page + 1,
                  hasMore |-> Len(items) = 100])
    ELSE ListFoldersLoop([loc EXCEPT !.hasMore = FALSE])

\* the page size without its cap
PerPageUncapped(a, dflt) == OrNum(Get(a, "per_page"), dflt)

\* ---- list_videos ----
PerPage(a, dflt) == Min(OrNum(Get(a, "per_page"), dflt), 100)
PageArg(a) == OrNum(Get(a, "page"), 1)

ListVideosEndpoint(a) ==
    LET pp   == ToString(PerPage(a, 50))
        pg   == ToString(PageArg(a))
        base == IF TruthyStr(Get(a, "folder_id"))
                THEN "/me/projects/" \o a.folder_id \o "/videos?per_page=" \o pp
                     \o "&page=" \o pg \o "&fields=uri,name,duration,created_time"
                ELSE "/me/videos?per_page=" \o pp \o "&page=" \o pg
                     \o "&fields=uri,name,duration,created_time,parent_folder"
    IN  IF TruthyStr(Get(a, "search"))
        THEN base \o "&query=" \o encodeURIComponent(a.search)
        ELSE base

handleListVideos(a) ==
    Await(<<Req(ListVideosEndpoint(a), "GET", Undefined)>>,
          [page |-> PageArg(a), perPage |-> PerPage(a, 50)])

\* res.data.data?.map(extractVideoMinimal) || []
VideoList(data) ==
    IF IsDef(Get(data, "data")) THEN MinimalVideos(data.data)
    ELSE <<>>

ListVideosDone(loc, res) ==
    IF res.status # 200
    THEN Return([error |-> "Failed to fetch videos", status |-> res.status])
    ELSE IF res.data = Null THEN Throw(TypeErr("data", "null"))
    ELSE LET videos == VideoList(D(res))
         IN  Return([total    |-> OrNum(Get(D(res), "total"), Len(videos)),
                     page     |-> loc.page,
                     per_page |-> loc.perPage,
                     videos   |-> videos])

\* ---- get_video ----
handleGetVideo(given, a) ==
    IF ~given THEN Throw(TypeErr("video_id", "undefined"))
    ELSE Await(<<Req("/videos/" \o Tmpl(Get(a, "video_id"))
                     \o "?fields=uri,name,description,duration,created_time,parent_folder,tags,privacy,link",
                     "GET", Undefined)>>,
               [step |-> "video"])

\* v.description?.substring(0, 500) || ""
Description(v) ==
    LET d == Get(v, "description")
    IN  IF IsDef(d) THEN SubSeq(Val(d), 1, Min(500, Len(Val(d)))) ELSE ""

\* v.tags?.map((t) => t.name) || []
TagNames(v) ==
    IF IsDef(Get(v, "tags")) THEN [i \in 1..Len(v.tags) |-> v.tags[i].name]
    ELSE <<>>

GetVideoDone(a, res) ==
    IF res.status # 200
    THEN Return([error |-> "Video not found", status |-> res.status])
    ELSE IF res.data = Null THEN Throw(TypeErr("name", "null"))
    ELSE LET v == D(res)
         IN  Return(Field("id", Get(a, "video_id"))
                    @@ Field("name", Get(v, "name"))
                    @@ [description |-> Description(v)]
                    @@ Field("duration", Get(v, "duration"))
                    @@ Field("created", DatePart(Get(v, "created_time")))
                    @@ Field("folder", Chain(Get(v, "parent_folder"), "name"))
                    @@ [tags |-> TagNames(v)]
                    @@ Field("privacy", ChainObj(Get(v, "privacy"), "view"))
                    @@ Field("link", Get(v, "link")))

\* ---- get_folder_videos ----
handleGetFolderVideos(given, a) ==
    IF ~given THEN Throw(TypeErr("page", "undefined"))
    ELSE Await(<<Req("/me/projects/" \o Tmpl(Get(a, "folder_id"))
                     \o "?fields=name,metadata.connections.videos.total",
                     "GET", Undefined)>>,
               [step |-> "folder", page |-> PageArg(a),
                perPage |-> PerPage(a, 50)])

\* the folder lookup checked like the video page: a failure status is an error
GetFolderVideosFolderStrict(a, loc, res) ==
    IF res.status # 200
    THEN Return([error |-> "Failed to fetch folder", status |-> res.status])
    ELSE IF res.data = Null THEN Throw(TypeErr("name", "null"))
    ELSE Await(<<Req("/me/projects/" \o Tmpl(Get(a, "folder_id"))
                     \o "/videos?per_page=" \o ToString(loc.perPage)
                     \o "&page=" \o ToString(loc.page)
                     \o "&fields=uri,name,duration,created_time",
                     "GET", Undefined)>>,
               [step |-> "videos", page |-> loc.page, perPage |-> loc.perPage,
                folderName  |-> OrStr(Get(D(res), "name"), "Unknown"),
                totalVideos |-> OrNum(VideosTotal(D(res)), 0)])

GetFolderVideosFolder(a, loc, res) ==
    IF res.data = Null THEN Throw(TypeErr("name", "null"))
    ELSE Await(<<Req("/me/projects/" \o Tmpl(Get(a, "folder_id"))
                     \o "/videos?per_page=" \o ToString(loc.perPage)
                     \o "&page=" \o ToString(loc.page)
                     \o "&fields=uri,name,duration,created_time",
                     "GET", Undefined)>>,
               [step |-> "videos", page |-> loc.page, perPage |-> loc.perPage,
                folderName  |-> OrStr(Get(D(res), "name"), "Unknown"),
                totalVideos |-> OrNum(VideosTotal(D(res)), 0)])

\* the inline mapping of handleGetFolderVideos
FolderVideo(v) ==
    Field("id", UriTailInline(Get(v, "uri")))
    @@ Field("name", Get(v, "name"))
    @@ Field("duration", Get(v, "duration"))
    @@ Field("created", DatePart(Get(v, "created_time")))

FolderVideos(list) == [i \in 1..Len(list) |-> FolderVideo(list[i])]

GetFolderVideosVideos(loc, res) ==
    IF res.status # 200
    THEN Return([error |-> "Failed to fetch folder videos",
                 status |-> res.status])
    ELSE IF res.data = Null THEN Throw(TypeErr("data", "null"))
    ELSE Return([folder   |-> loc.folderName,
                 total    |-> loc.totalVideos,
                 page     |-> loc.page,
                 per_page |-> loc.perPage,
                 videos   |-> IF IsDef(Get(D(res), "data"))
                              THEN FolderVideos(D(res).data)
                              ELSE <<>>])

\* ---- move_video ----
handleMoveVideo(given, a) ==
    IF ~given THEN Throw(TypeErr("folder_id", "undefined"))
    ELSE Await(<<Req("/me/projects/" \o Tmpl(Get(a, "folder_id")) \o "/items",
                     "POST",
                     Def([items |-> <<[uri |-> "/videos/"
                                          \o Tmpl(Get(a, "video_id"))]>>]))>>,
               [step |-> "move"])

\* success only on 200, and a failure status reported as an error result
MoveVideoDoneStrict(a, res) ==
    IF res.status \in {200, 201, 204}
    THEN Return([success |-> res.status = 200]
                @@ Field("video_id", Get(a, "video_id"))
                @@ Field("folder_id", Get(a, "folder_id")))
    ELSE Return([error |-> "Failed to move video", status |-> res.status])

MoveVideoDone(a, res) ==
    Return([success |-> res.status \in {204, 200, 201}]
           @@ Field("video_id", Get(a, "video_id"))
           @@ Field("folder_id", Get(a, "folder_id")))

\* ---- create_folder ----
handleCreateFolder(given, a) ==
    IF ~given THEN Throw(TypeErr("name", "undefined"))
    ELSE Await(<<Req("/me/projects", "POST",
                     Def(Field("name", Get(a, "name"))))>>,
               [step |-> "create"])

\* the 400 "already exists" case not told apart from the other failures
CreateFolderDoneRaw(a, res) ==
    IF res.status = 201
    THEN IF res.data = Null THEN Throw(TypeErr("uri", "null"))
         ELSE Return([success |-> TRUE]
                     @@ Field("id", UriTailInline(Get(D(res), "uri")))
                     @@ Field("name", Get(a, "name")))
    ELSE IF res.data = Null THEN Throw(TypeErr("error", "null"))
    ELSE Return([success |-> FALSE,
                 error   |-> OrStr(Get(D(res), "error"),
                                   "Failed to create folder")])

CreateFolderDone(a, res) ==
    IF res.status = 201
    THEN IF res.data = Null THEN Throw(TypeErr("uri", "null"))
         ELSE Return([success |-> TRUE]
                     @@ Field("id", UriTailInline(Get(D(res), "uri")))
                     @@ Field("name", Get(a, "name")))
    ELSE IF res.data = Null THEN Throw(TypeErr("error", "null"))
    ELSE IF /\ res.status = 400
            /\ IsDef(Get(D(res), "error"))
            /\ Includes(D(res).error, "already exists")
    THEN Return([success |-> FALSE, error |-> "Folder already exists"])
    ELSE Return([success |-> FALSE,
                 error   |-> OrStr(Get(D(res), "error"),
                                   "Failed to create folder")])

\* ---- update_video ----
\* if (args.x) body.x = args.x, for the strings name and description
SuppliedStr(a, key) == IF TruthyStr(Get(a, key)) THEN Get(a, key) ELSE Undefined

\* if (args.tags) body.tags = args.tags
SuppliedArr(a, key) == IF TruthyArr(Get(a, key)) THEN Get(a, key) ELSE Undefined

UpdateBody(a) ==
    Field("name", SuppliedStr(a, "name"))
    @@ Field("description", SuppliedStr(a, "description"))
    @@ Field("tags", SuppliedArr(a, "tags"))

handleUpdateVideo(given, a) ==
    IF ~given THEN Throw(TypeErr("name", "undefined"))
    ELSE Await(<<Req("/videos/" \o Tmpl(Get(a, "video_id")), "PATCH",
                     Def(UpdateBody(a)))>>,
               [step |-> "update"])

UpdateVideoDone(a, res) ==
    Return([success |-> res.status = 200]
           @@ Field("video_id", Get(a, "video_id")))

\* ---- search_videos ----
handleSearchVideos(given, a) ==
    IF ~given THEN Throw(TypeErr("page", "undefined"))
    ELSE Await(<<Req("/me/videos?query="
                     \o encodeURIComponent(Tmpl(Get(a, "query")))
                     \o "&per_page=" \o ToString(PerPage(a, 25))
                     \o "&page=" \o ToString(PageArg(a))
                     \o "&fields=uri,name,duration,created_time,parent_folder",
                     "GET", Undefined)>>,
               [page |-> PageArg(a), perPage |-> PerPage(a, 25)])

SearchVideosDone(a, loc, res) ==
    IF res.status # 200
    THEN Return([error |-> "Search failed", status |-> res.status])
    ELSE IF res.data = Null THEN Throw(TypeErr("data", "null"))
    ELSE LET videos == VideoList(D(res))
         IN  Return(Field("query", Get(a, "query"))
                    @@ [total    |-> OrNum(Get(D(res), "total"), Len(videos)),
                        page     |-> loc.page,
                        per_page |-> loc.perPage,
                        videos   |-> videos])

\* ---- get_stats ----
\* bytes in one gigabyte
Gb == 1073741824

Pad2(n) == IF n < 10 THEN "0" \o ToString(n) ELSE ToString(n)

\* (bytes / 1073741824).toFixed(2): bytes / 2^30 is exact in a double, and
\* toFixed rounds half up.  The hundredths of the remainder r are
\* floor((r * 200 + 2^30) / 2^31), computed on the two 15-bit halves of r
\* to stay within 32-bit integers.
ToFixed2Gb(bytes) ==
    LET q    == bytes \div Gb
        r    == bytes % Gb
        hi   == r \div 32768
        lo   == r % 32768
        h    == (hi * 200 + (lo * 200) \div 32768 + 32768) \div 65536
        unit == IF h = 100 THEN q + 1 ELSE q
        frac == IF h = 100 THEN 0 ELSE h
    IN  ToString(unit) \o "." \o Pad2(frac)

\* the three probes issued together, as Promise.all would
handleGetStatsParallel ==
    Await(<<Req("/me/videos?per_page=1&fields=uri", "GET", Undefined),
            Req("/me/projects?per_page=1", "GET", Undefined),
            Req("/me?fields=upload_quota", "GET", Undefined)>>,
          [step |-> "videos"])

handleGetStats ==
    Await(<<Req("/me/videos?per_page=1&fields=uri", "GET", Undefined)>>,
          [step |-> "videos"])

GetStatsVideos(res) ==
    IF res.data = Null THEN Throw(TypeErr("total", "null"))
    ELSE Await(<<Req("/me/projects?per_page=1", "GET", Undefined)>>,
               [step |-> "folders",
                totalVideos |-> OrNum(Get(D(res), "total"), 0)])

\* the folder count read from the wrong response
GetStatsFoldersMixed(loc, res) ==
    IF res.data = Null THEN Throw(TypeErr("total", "null"))
    ELSE Await(<<Req("/me?fields=upload_quota", "GET", Undefined)>>,
               [step |-> "user", totalVideos |-> loc.totalVideos,
                totalFolders |-> loc.totalVideos])

GetStatsFolders(loc, res) ==
    IF res.data = Null THEN Throw(TypeErr("total", "null"))
    ELSE Await(<<Req("/me?fields=upload_quota", "GET", Undefined)>>,
               [step |-> "user", totalVideos |-> loc.totalVideos,
                totalFolders |-> OrNum(Get(D(res), "total"), 0)])

\* userRes.data.upload_quota?.space?.<key> || 0
Space(data, key) ==
    OrNum(ChainObj(ChainObj(Get(data, "upload_quota"), "space"), key), 0)

GetStatsUser(loc, res) ==
    IF res.data = Null THEN Throw(TypeErr("upload_quota", "null"))
    ELSE Return([total_videos    |-> loc.totalVideos,
                 total_folders   |-> loc.totalFolders,
                 storage_used_gb |-> ToFixed2Gb(Space(D(res), "used")),
                 storage_max_gb  |-> ToFixed2Gb(Space(D(res), "max"))])

(***************************************************************************)
(* Dispatcher: the CallToolRequestSchema handler                           *)
(***************************************************************************)
NoArgs == [given |-> FALSE, obj |-> <<>>]
Args(obj) == [given |-> TRUE, obj |-> obj]

\* the switch on the tool name, run up to the handler's first await
Dispatch(name, ar) ==
    CASE name = "list_folders"      -> handleListFolders
      [] name = "list_videos"       -> handleListVideos(ar.obj)
      [] name = "get_video"         -> handleGetVideo(ar.given, ar.obj)
      [] name = "get_folder_videos" -> handleGetFolderVideos(ar.given, ar.obj)
      [] name = "move_video"        -> handleMoveVideo(ar.given, ar.obj)
      [] name = "create_folder"     -> handleCreateFolder(ar.given, ar.obj)
      [] name = "update_video"      -> handleUpdateVideo(ar.given, ar.obj)
      [] name = "search_videos"     -> handleSearchVideos(ar.given, ar.obj)
      [] name = "get_stats"         -> handleGetStats
      [] OTHER -> Return([error |-> "Unknown tool: " \o name])

\* the handler resumed with the response it awaited
Resume(name, ar, loc, res) ==
    CASE name = "list_folders"  -> ListFoldersPage(loc, res)
      [] name = "list_videos"   -> ListVideosDone(loc, res)
      [] name = "get_video"     -> GetVideoDone(ar.obj, res)
      [] name = "get_folder_videos" /\ loc.step = "folder"
                                -> GetFolderVideosFolder(ar.obj, loc, res)
      [] name = "get_folder_videos" /\ loc.step = "videos"
                                -> GetFolderVideosVideos(loc, res)
      [] name = "move_video"    -> MoveVideoDone(ar.obj, res)
      [] name = "create_folder" -> CreateFolderDone(ar.obj, res)
      [] name = "update_video"  -> UpdateVideoDone(ar.obj, res)
      [] name = "search_videos" -> SearchVideosDone(ar.obj, loc, res)
      [] name = "get_stats" /\ loc.step = "videos"  -> GetStatsVideos(res)
      [] name = "get_stats" /\ loc.step = "folders" -> GetStatsFolders(loc, res)
      [] name = "get_stats" /\ loc.step = "user"    -> GetStatsUser(loc, res)

NoResult == [none |-> TRUE]
NoLocals == [none |-> TRUE]

\* return { content: [{ type: "text", text: result }] }
TextResult(value) == [outcome |-> "returned", value |-> value]

\* the dispatcher without its catch: the error leaves the handler
CatchRethrow(msg) == [outcome |-> "escaped", value |-> NoResult]

\* catch (error) { return {content: [{type: "text", text: {error: error.message}}]} }
Catch(msg) == TextResult([error |-> msg])

\* One run of handler code, from a resumption to the next await, the return
\* or the throw; `pending` are the requests still outstanding.
Run(eff, pending) ==
    CASE eff.kind = "await" ->
            /\ pc' = "await"
            /\ locals' = eff.locals
            /\ inflight' = pending \o eff.reqs
            /\ sent' = sent \o eff.reqs
            /\ UNCHANGED <<outcome, result, thrown>>
      [] eff.kind = "return" ->
            /\ pc' = "done"
            /\ outcome' = TextResult(eff.value).outcome
            /\ result' = TextResult(eff.value).value
            /\ inflight' = pending
            /\ UNCHANGED <<locals, sent, thrown>>
      [] eff.kind = "throw" ->
            /\ pc' = "done"
            /\ outcome' = Catch(eff.msg).outcome
            /\ result' = Catch(eff.msg).value
            /\ thrown' = Def(eff.msg)
            /\ inflight' = pending
            /\ UNCHANGED <<locals, sent>>

(***************************************************************************)
(* The caller: tool names and arguments                                    *)
(***************************************************************************)
\* an optional key of an arguments object or of an upstream object
Opts(key, vals) == {<<>>} \cup {[k \in {key} |-> v] : v \in vals}

MaybeGiven(objs) == {NoArgs} \cup {Args(o) : o \in objs}

ListVideosArgs ==
    MaybeGiven({pp @@ pg @@ f @@ q :
                   pp \in Opts("per_page", {-1, 0, 1, 100, 101, 500}),
                   pg \in Opts("page", {0, 2}),
                   f  \in Opts("folder_id", {"789"}),
                   q  \in Opts("search", {"", "a b"})})

GetVideoArgs == MaybeGiven(Opts("video_id", {"7"}))

GetFolderVideosArgs ==
    MaybeGiven({f @@ pg @@ pp :
                   f  \in Opts("folder_id", {"789"}),
                   pg \in Opts("page", {3}),
                   pp \in Opts("per_page", {0, 30, 500})})

MoveVideoArgs ==
    MaybeGiven({v @@ f : v \in Opts("video_id", {"7"}),
                         f \in Opts("folder_id", {"789"})})

CreateFolderArgs == MaybeGiven(Opts("name", {"", "New"}))

UpdateVideoArgs ==
    MaybeGiven({v @@ n @@ d @@ t :
                   v \in Opts("video_id", {"7"}),
                   n \in Opts("name", {"", "X"}),
                   d \in Opts("description", {"", "About"}),
                   t \in Opts("tags", {<<>>, <<"a", "b">>})})

SearchVideosArgs ==
    MaybeGiven({q @@ pg @@ pp :
                   q  \in Opts("query", {"", "a b"}),
                   pg \in Opts("page", {0, 2}),
                   pp \in Opts("per_page", {0, 100, 500})})

UnknownNames == {"delete_video", ""}

(***************************************************************************)
(* The upstream: what a request can come back with.  A response with a     *)
(* failure status carries an error body (or none, or one that does not     *)
(* parse), never the resource; a 2xx response may still lack any field.    *)
(***************************************************************************)
TransportErrors == {"socket hang up"}

FolderA == [uri |-> "/users/1/projects/789", name |-> "Work",
            metadata |-> [connections |-> [videos |-> [total |-> 150]]]]
FolderB == [uri |-> "/users/1/projects/12/", name |-> "",
            metadata |-> [connections |-> <<>>]]
FolderC == <<>>
FolderD == [uri |-> "", name |-> "Old"]

VideoA == [uri |-> "/videos/7", name |-> "Intro", duration |-> 360,
           created_time |-> "2025-01-10T09:30:00+00:00",
           parent_folder |-> Obj([name |-> "Work"])]
VideoB == <<>>
VideoC == [uri |-> "", name |-> "", duration |-> 0, created_time |-> "",
           parent_folder |-> Null]
VideoD == [uri |-> "8", name |-> "Outro", created_time |-> "2024-12-31"]

RECURSIVE Repeat(_, _)
Repeat(s, n) == IF n = 0 THEN "" ELSE s \o Repeat(s, n - 1)

VideoFull == VideoA @@ [description |-> "Hello", link |-> "https://vimeo.com/7",
                        tags |-> <<[name |-> "a"], [name |-> "b"]>>,
                        privacy |-> [view |-> "anybody"]]
VideoLong == [uri |-> "/videos/7", description |-> Repeat("abcdefg", 72),
              privacy |-> <<>>, tags |-> <<>>]

ErrorBodies ==
    {EmptyBody, MalformedBody, JsonBody(Null),
     JsonBody(Obj([error |-> "Something strange occurred."]))}

\* bodies any response may have, whatever its status
AnyBodies == {EmptyBody, MalformedBody, JsonBody(Null)}

Responses(okStatuses, okBodies, badStatuses, badBodies) ==
    {Resolved(st, b) : st \in okStatuses, b \in okBodies \cup AnyBodies}
    \cup {Resolved(st, b) : st \in badStatuses, b \in badBodies}

Full(folder) == [i \in 1..100 |-> folder]

\* The pages of the folder listing: a full page only while the upstream has
\* one (MaxPages of them), and never more than the 100 asked for.
FolderPages(page) ==
    {<<>>, <<FolderA>>, <<FolderB, FolderC, FolderD>>,
     [i \in 1..99 |-> FolderA]}
    \cup (IF page <= MaxPages THEN {Full(FolderA), Full(FolderD)} ELSE {})

FolderPageResponses(page) ==
    Responses({200},
              {JsonBody(Obj([data |-> p, total |-> 150])) : p \in FolderPages(page)},
              {500, 429}, ErrorBodies)

VideoPages == {<<>>, <<VideoA>>, <<VideoB, VideoC, VideoD, VideoA>>}

VideoListResponses ==
    Responses({200},
              {JsonBody(Obj(d @@ t)) : d \in Opts("data", VideoPages),
                                        t \in Opts("total", {0, 3081})},
              {404, 0}, ErrorBodies)

VideoResponses ==
    Responses({200}, {JsonBody(Obj(VideoFull)), JsonBody(Obj(VideoLong))},
              {404}, ErrorBodies)

FolderInfoResponses ==
    Responses({200},
              {JsonBody(Obj(FolderA)), JsonBody(Obj(FolderB))},
              {404, 500}, ErrorBodies)

MoveResponses == Responses({200, 201, 204}, {}, {400, 404, 0}, ErrorBodies)

CreateResponses ==
    Responses({201},
              {JsonBody(Obj(FolderA)), JsonBody(Obj(FolderB)),
               JsonBody(Obj(FolderD))},
              {400},
              ErrorBodies \cup
              {JsonBody(Obj([error |-> e])) :
                  e \in {"A folder with that name already exists.",
                         "already exists", "Already exists", "already exist",
                         ""}})
    \cup Responses({200}, {JsonBody(Obj(FolderA))}, {403, 500}, ErrorBodies)

UpdateResponses ==
    Responses({200, 204}, {JsonBody(Obj(VideoFull))}, {400, 404}, ErrorBodies)

CountResponses ==
    Responses({200},
              {JsonBody(Obj([total |-> 3081])), JsonBody(Obj([total |-> 0]))},
              {401, 500}, ErrorBodies)

Quota(used, max) ==
    JsonBody(Obj([upload_quota |-> [space |-> [used |-> used, max |-> max]]]))

QuotaResponses ==
    Responses({200},
              {Quota(Gb, 2147483647), Quota(5368710, 5368709),
               Quota(1610612736, 0),
               JsonBody(Obj([upload_quota |-> [space |-> <<>>]]))},
              {401, 500}, ErrorBodies)

(***************************************************************************)
(* The state machine                                                       *)
(***************************************************************************)
Init ==
    /\ pc = "idle"
    /\ tool = ""
    /\ args = NoArgs
    /\ locals = NoLocals
    /\ inflight = <<>>
    /\ sent = <<>>
    /\ got = <<>>
    /\ outcome = "none"
    /\ result = NoResult
    /\ thrown = Undefined
    /\ recovered = FALSE

\* A tools/call request arrives: the dispatcher runs the handler up to its
\* first await.
CallTool(name, ar) ==
    /\ pc = "idle"
    /\ tool' = name
    /\ args' = ar
    /\ Run(Dispatch(name, ar), <<>>)
    /\ UNCHANGED <<got, recovered>>

CallListFolders ==
    /\ pc = "idle"
    /\ \E ar \in MaybeGiven({<<>>}) : CallTool("list_folders", ar)

CallListVideos ==
    /\ pc = "idle"
    /\ \E ar \in ListVideosArgs : CallTool("list_videos", ar)

CallGetVideo ==
    /\ pc = "idle"
    /\ \E ar \in GetVideoArgs : CallTool("get_video", ar)

CallGetFolderVideos ==
    /\ pc = "idle"
    /\ \E ar \in GetFolderVideosArgs : CallTool("get_folder_videos", ar)

CallMoveVideo ==
    /\ pc = "idle"
    /\ \E ar \in MoveVideoArgs : CallTool("move_video", ar)

CallCreateFolder ==
    /\ pc = "idle"
    /\ \E ar \in CreateFolderArgs : CallTool("create_folder", ar)

CallUpdateVideo ==
    /\ pc = "idle"
    /\ \E ar \in UpdateVideoArgs : CallTool("update_video", ar)

CallSearchVideos ==
    /\ pc = "idle"
    /\ \E ar \in SearchVideosArgs : CallTool("search_videos", ar)

CallGetStats ==
    /\ pc = "idle"
    /\ \E ar \in MaybeGiven({<<>>}) : CallTool("get_stats", ar)

\* default: of the switch
CallUnknown ==
    /\ pc = "idle"
    /\ \E name \in UnknownNames, ar \in MaybeGiven({<<>>}) : CallTool(name, ar)

\* The awaited request resolves and the handler runs on.
Respond(res) ==
    /\ got' = Append(got, res)
    /\ Run(Resume(tool, args, locals, res), Tail(inflight))
    /\ UNCHANGED <<tool, args, recovered>>

Awaiting(name) == pc = "await" /\ tool = name /\ inflight # <<>>

ResolveListFolders ==
    /\ Awaiting("list_folders")
    /\ \E res \in FolderPageResponses(locals.page) : Respond(res)

ResolveListVideos ==
    /\ Awaiting("list_videos")
    /\ \E res \in VideoListResponses : Respond(res)

ResolveGetVideo ==
    /\ Awaiting("get_video")
    /\ \E res \in VideoResponses : Respond(res)

ResolveFolderInfo ==
    /\ Awaiting("get_folder_videos") /\ locals.step = "folder"
    /\ \E res \in FolderInfoResponses : Respond(res)

ResolveFolderVideos ==
    /\ Awaiting("get_folder_videos") /\ locals.step = "videos"
    /\ \E res \in VideoListResponses : Respond(res)

ResolveMoveVideo ==
    /\ Awaiting("move_video")
    /\ \E res \in MoveResponses : Respond(res)

ResolveCreateFolder ==
    /\ Awaiting("create_folder")
    /\ \E res \in CreateResponses : Respond(res)

ResolveUpdateVideo ==
    /\ Awaiting("update_video")
    /\ \E res \in UpdateResponses : Respond(res)

ResolveSearchVideos ==
    /\ Awaiting("search_videos")
    /\ \E res \in VideoListResponses : Respond(res)

ResolveStatsVideos ==
    /\ Awaiting("get_stats") /\ locals.step = "videos"
    /\ \E res \in CountResponses : Respond(res)

ResolveStatsFolders ==
    /\ Awaiting("get_stats") /\ locals.step = "folders"
    /\ \E res \in CountResponses : Respond(res)

ResolveStatsUser ==
    /\ Awaiting("get_stats") /\ locals.step = "user"
    /\ \E res \in QuotaResponses : Respond(res)

\* The awaited request fails at transport level: its promise is rejected,
\* the await throws, and no handler catches.
RejectRequest ==
    /\ pc = "await" /\ inflight # <<>>
    /\ \E msg \in TransportErrors :
          /\ got' = Append(got, Rejected(msg))
          /\ Run(Throw(msg), Tail(inflight))
    /\ UNCHANGED <<tool, args, recovered>>

\* The text result goes back to the caller; nothing of the call is kept.
Finish ==
    /\ pc = "done" /\ outcome = "returned"
    /\ pc' = "idle"
    /\ tool' = ""
    /\ args' = NoArgs
    /\ locals' = NoLocals
    /\ inflight' = <<>>
    /\ sent' = <<>>
    /\ got' = <<>>
    /\ outcome' = "none"
    /\ result' = NoResult
    /\ thrown' = Undefined
    /\ recovered' = (recovered \/ IsDef(thrown))

Next ==
    \/ CallListFolders \/ CallListVideos \/ CallGetVideo
    \/ CallGetFolderVideos \/ CallMoveVideo \/ CallCreateFolder
    \/ CallUpdateVideo \/ CallSearchVideos \/ CallGetStats \/ CallUnknown
    \/ ResolveListFolders \/ ResolveListVideos \/ ResolveGetVideo
    \/ ResolveFolderInfo \/ ResolveFolderVideos \/ ResolveMoveVideo
    \/ ResolveCreateFolder \/ ResolveUpdateVideo \/ ResolveSearchVideos
    \/ ResolveStatsVideos \/ ResolveStatsFolders \/ ResolveStatsUser
    \/ RejectRequest \/ Finish

Spec == Init /\ [][Next]_vars

(***************************************************************************)
(* Reading the state                                                       *)
(***************************************************************************)
A == args.obj
Done(name) == pc = "done" /\ tool = name
LastGot == got[Len(got)]

IsReject(res) == res.kind = "reject"
Ok2xx(res) == res.kind = "resolve" /\ res.status \in {200, 201, 204}
\* a call that failed: rejected at transport level, or a non-2xx status
CallFailed(res) == ~Ok2xx(res)
\* a call that came back with a non-2xx status
StatusFailed(res) == res.kind = "resolve" /\ res.status \notin {200, 201, 204}
NullBody(res) == res.kind = "resolve" /\ res.data = Null
NoNullBody == \A i \in 1..Len(got) : ~NullBody(got[i])

\* the request as the upstream reads it: path, query parameters, numbers
PathOf(req) == Split(req.path, "?")[1]

Param(req, key) ==
    LET segs == Split(Split(req.path, "?")[2], "&")
        i    == CHOOSE k \in 1..Len(segs) : Split(segs[k], "=")[1] = key
    IN  Split(segs[i], "=")[2]

Digit(c) == CHOOSE d \in 0..9 : ToString(d) = c

RECURSIVE ParseNat(_)
ParseNat(s) ==
    IF s = "" THEN 0
    ELSE ParseNat(SubSeq(s, 1, Len(s) - 1)) * 10 + Digit(Char(s, Len(s)))

ParseInt(s) ==
    IF Char(s, 1) = "-" THEN 0 - ParseNat(SubSeq(s, 2, Len(s)))
    ELSE ParseNat(s)

\* the trailing path segment of a resource's self URI, "" without one
SelfUriTail(resource) ==
    IF "uri" \in DOMAIN resource /\ resource.uri # ""
    THEN Pop(Split(resource.uri, "/"))
    ELSE ""

\* every item carries an id, the tail of its resource's self URI
IdsOk(items, resources) ==
    /\ Len(items) = Len(resources)
    /\ \A i \in 1..Len(items) :
          "id" \in DOMAIN items[i] /\ items[i].id = SelfUriTail(resources[i])

\* the list a listing response carries, [] without one
ListOf(res) ==
    IF res.kind = "resolve" /\ res.data # Null /\ "data" \in DOMAIN D(res)
    THEN D(res).data ELSE <<>>

(***************************************************************************)
(* C1                                                                      *)
(***************************************************************************)
FreshServer ==
    /\ tool = "" /\ args = NoArgs /\ locals = NoLocals
    /\ inflight = <<>> /\ sent = <<>> /\ got = <<>>
    /\ outcome = "none" /\ result = NoResult /\ thrown = Undefined

\* C1: whatever the tool name, the arguments and the upstream's answers
\* (a rejected request included), a call that ends ends with a text result
\* and no error leaves the dispatcher; an error thrown while the handler
\* ran comes back as {error: message}; and once the result is handed over
\* the server is back in the state it started in, ready for every tool.
C1_ErrorsNeverEscape ==
    /\ outcome # "escaped"
    /\ pc = "done" =>
          /\ outcome = "returned"
          /\ "none" \notin DOMAIN result
          /\ IsDef(thrown) => result = [error |-> Val(thrown)]
          /\ ENABLED Finish
    /\ pc = "idle" =>
          /\ FreshServer
          /\ ENABLED CallListFolders /\ ENABLED CallListVideos
          /\ ENABLED CallGetVideo /\ ENABLED CallGetFolderVideos
          /\ ENABLED CallMoveVideo /\ ENABLED CallCreateFolder
          /\ ENABLED CallUpdateVideo /\ ENABLED CallSearchVideos
          /\ ENABLED CallGetStats /\ ENABLED CallUnknown

\* a call served after an earlier call threw, itself ending in a caught
\* transport failure
C1_Witness ==
    /\ pc = "done" /\ recovered /\ outcome = "returned"
    /\ got # <<>> /\ IsReject(LastGot)
    /\ result = [error |-> LastGot.msg]

(***************************************************************************)
(* C2                                                                      *)
(***************************************************************************)
PageOk(res) ==
    /\ res.kind = "resolve" /\ res.status = 200
    /\ res.data # Null /\ "data" \in DOMAIN D(res)

\* a page that ends the loop: failed, or fewer than 100 folders
PageLast(res) == ~PageOk(res) \/ Len(ListOf(res)) < 100

RECURSIVE FoldersOf(_)
FoldersOf(rs) ==
    IF Len(rs) = 0 THEN <<>>
    ELSE FoldersOf(SubSeq(rs, 1, Len(rs) - 1))
         \o (IF PageOk(rs[Len(rs)])
             THEN MinimalFolders(ListOf(rs[Len(rs)]))
             ELSE <<>>)

\* pages 1, 2, 3, ... in order, one at a time, none after a last page
PagesInOrder ==
    /\ \A i \in 1..Len(sent) :
          sent[i] = Req("/me/projects?per_page=100&page=" \o ToString(i),
                        "GET", Undefined)
    /\ Len(got) <= Len(sent) /\ Len(sent) <= Len(got) + 1
    /\ \A i \in 1..Len(got) : PageLast(got[i]) => i = Len(sent)
    /\ pc = "done" => Len(got) = Len(sent) /\ PageLast(LastGot)

PartialResult ==
    result = [total |-> Len(FoldersOf(got)), folders |-> FoldersOf(got)]

\* the page fetches that make the handler throw
PageThrows(res) == IsReject(res) \/ (NullBody(res) /\ res.status = 200)

\* C2 as stated: pages in order, stop at the first short or failed page, and
\* a failed page always gives the partial result, never an error result
\* (looked at only where no body is JSON null).
C2_AsStated ==
    (tool = "list_folders" /\ NoNullBody) =>
        /\ PagesInOrder
        /\ pc = "done" => PartialResult

\* C2, amended: pages 1, 2, 3, ... are requested in order, each at most
\* once, and the loop stops after the first page with fewer than 100 folders
\* or whose fetch fails.  A page that comes back with a non-200 status, or
\* with a 200 that carries no folder list, gives the partial result
\* {total, folders} of the pages before it; a page whose request is rejected
\* at transport level, or whose 200 body is JSON null, gives {error: message}
\* and the folders fetched so far are dropped.  100 folders on page 1 and
\* none on page 2: two fetches, total 100.
C2_ListFolders ==
    tool = "list_folders" =>
        /\ PagesInOrder
        /\ pc = "done" =>
              /\ IF PageThrows(LastGot)
                 THEN result = [error |-> IF IsReject(LastGot) THEN LastGot.msg
                                          ELSE TypeErr("data", "null")]
                 ELSE PartialResult
              /\ (/\ Len(got) >= 2
                  /\ PageOk(got[1]) /\ Len(ListOf(got[1])) = 100
                  /\ PageOk(got[2]) /\ Len(ListOf(got[2])) = 0)
                 => Len(sent) = 2 /\ result.total = 100

\* two full pages, then a page that fails with a status: 200 folders returned
C2_Witness ==
    /\ Done("list_folders") /\ Len(got) = 3
    /\ StatusFailed(got[3])
    /\ result.total = 200
    /\ result.folders[101] = extractFolderMinimal(ListOf(got[2])[1])

(***************************************************************************)
(* C3                                                                      *)
(***************************************************************************)
FolderPath == "/me/projects/" \o Tmpl(Get(A, "folder_id"))
IsFolderInfo(req) == req.method = "GET" /\ PathOf(req) = FolderPath
IsFolderVideoPage(req) ==
    req.method = "GET" /\ PathOf(req) = FolderPath \o "/videos"

FolderVideosKeys == {"folder", "total", "page", "per_page", "videos"}

\* C3 as stated: always two calls, folder metadata then video page; the
\* second failing gives {error, status}; the first failing, the second
\* succeeding, gives the normal result with folder "Unknown" (looked at only
\* where folder_id is given and no body is JSON null).
C3_AsStated ==
    (/\ Done("get_folder_videos") /\ args.given /\ "folder_id" \in DOMAIN A
     /\ NoNullBody) =>
        /\ Len(sent) = 2
        /\ IsFolderInfo(sent[1]) /\ IsFolderVideoPage(sent[2])
        /\ CallFailed(got[2]) => DOMAIN result = {"error", "status"}
        /\ (CallFailed(got[1]) /\ ~CallFailed(got[2])) =>
              DOMAIN result = FolderVideosKeys /\ result.folder = "Unknown"

\* C3, amended: called with an arguments object, get_folder_videos asks for
\* the folder metadata first and for the video page only once the metadata
\* call has come back with a body that is not JSON null.  A video page with
\* a non-200 status gives {error, status}.  A metadata call with a failure
\* status, followed by a video page with status 200 and a body that is not
\* null, gives the normal result with folder "Unknown" and total 0.  A call
\* rejected at transport level, a null metadata body or a null body of a 200
\* video page gives {error: message}, without status.
C3_FolderVideos ==
    (Done("get_folder_videos") /\ args.given) =>
        /\ Len(sent) = Len(got) /\ Len(sent) \in {1, 2}
        /\ IsFolderInfo(sent[1])
        /\ Len(sent) = 1 <=> (IsReject(got[1]) \/ NullBody(got[1]))
        /\ Len(sent) = 1 =>
              result = [error |-> IF IsReject(got[1]) THEN got[1].msg
                                  ELSE TypeErr("name", "null")]
        /\ Len(sent) = 2 =>
              /\ IsFolderVideoPage(sent[2])
              /\ CASE IsReject(got[2]) -> result = [error |-> got[2].msg]
                   [] got[2].status # 200 ->
                        result = [error  |-> "Failed to fetch folder videos",
                                  status |-> got[2].status]
                   [] NullBody(got[2]) ->
                        result = [error |-> TypeErr("data", "null")]
                   [] OTHER ->
                        /\ DOMAIN result = FolderVideosKeys
                        /\ StatusFailed(got[1]) =>
                              result.folder = "Unknown" /\ result.total = 0

\* the metadata call answers 404, the video page 200 with two or more videos
C3_Witness ==
    /\ Done("get_folder_videos") /\ Len(got) = 2
    /\ StatusFailed(got[1])
    /\ PageOk(got[2]) /\ Len(ListOf(got[2])) > 1
    /\ DOMAIN result = FolderVideosKeys
    /\ result.folder = "Unknown"
    /\ Len(result.videos) = Len(ListOf(got[2]))

(***************************************************************************)
(* C4                                                                      *)
(***************************************************************************)
MoveArgsGiven ==
    args.given /\ "video_id" \in DOMAIN A /\ "folder_id" \in DOMAIN A

IsItemAddition(req) ==
    /\ req.method = "POST"
    /\ req.path = "/me/projects/" \o A.folder_id \o "/items"
    /\ req.body = Def([items |-> <<[uri |-> "/videos/" \o A.video_id]>>])

\* C4 as stated: one item-addition request and, for every outcome of it, a
\* result {success, video_id, folder_id}, success exactly on 200/201/204.
C4_AsStated ==
    (Done("move_video") /\ MoveArgsGiven) =>
        /\ Len(sent) = 1 /\ IsItemAddition(sent[1])
        /\ DOMAIN result = {"success", "video_id", "folder_id"}
        /\ result.success = Ok2xx(got[1])
        /\ result.video_id = A.video_id /\ result.folder_id = A.folder_id

\* C4, amended: move_video issues exactly one item-addition request and,
\* for every response that request comes back with (any status, any body),
\* returns {success, video_id, folder_id}, success being true exactly on
\* status 200, 201 or 204 and the two ids echoing the arguments; only when
\* the request is rejected at transport level is the result {error: message}.
C4_MoveVideo ==
    (Done("move_video") /\ MoveArgsGiven) =>
        /\ Len(sent) = 1 /\ Len(got) = 1 /\ IsItemAddition(sent[1])
        /\ IF IsReject(got[1])
           THEN result = [error |-> got[1].msg]
           ELSE result = [success   |-> got[1].status \in {200, 201, 204},
                          video_id  |-> A.video_id,
                          folder_id |-> A.folder_id]

\* the upstream refuses the move with a failure status: success false, no error
C4_Witness ==
    /\ Done("move_video") /\ MoveArgsGiven /\ Len(got) = 1
    /\ StatusFailed(got[1])
    /\ result = [success |-> FALSE, video_id |-> "7", folder_id |-> "789"]

(***************************************************************************)
(* C5                                                                      *)
(***************************************************************************)
CreateAnswered ==
    /\ Done("create_folder") /\ args.given /\ "name" \in DOMAIN A
    /\ Len(got) = 1 /\ got[1].kind = "resolve"

HasError(res) == "error" \in DOMAIN D(res)
AlreadyExists(res) ==
    res.status = 400 /\ HasError(res) /\ Includes(D(res).error, "already exists")

\* C5 as stated: 201 gives {success: true, id, name}; 400 with "already
\* exists" gives the fixed message; every other non-201 response gives the
\* raw upstream error message (looked at only where the body is an object
\* and a 201 carries its self URI).
C5_AsStated ==
    (CreateAnswered /\ NoNullBody) =>
        LET res == got[1] IN
        CASE res.status = 201 ->
                "uri" \in DOMAIN D(res) =>
                    result = [success |-> TRUE, id |-> SelfUriTail(D(res)),
                              name |-> A.name]
          [] AlreadyExists(res) ->
                result = [success |-> FALSE, error |-> "Folder already exists"]
          [] OTHER ->
                /\ HasError(res)
                /\ result = [success |-> FALSE, error |-> D(res).error]

\* C5, amended: for a response whose body is a JSON object, 201 gives
\* {success: true, id, name} with name the input name and id the last path
\* segment of the response's self URI when it carries one; 400 with an error
\* text containing "already exists" gives exactly {success: false, error:
\* "Folder already exists"}; every other non-201 response gives {success:
\* false, error} where error is the raw upstream error message, or "Failed
\* to create folder" when the response carries no error text or an empty
\* one.  A JSON null body gives {error: message} instead.
C5_CreateFolder ==
    CreateAnswered =>
        LET res == got[1] IN
        CASE NullBody(res) ->
                result = [error |-> TypeErr(IF res.status = 201 THEN "uri"
                                            ELSE "error", "null")]
          [] res.status = 201 ->
                /\ result.success /\ result.name = A.name
                /\ DOMAIN result \subseteq {"success", "id", "name"}
                /\ "uri" \in DOMAIN D(res) =>
                      "id" \in DOMAIN result /\ result.id = SelfUriTail(D(res))
          [] AlreadyExists(res) ->
                result = [success |-> FALSE, error |-> "Folder already exists"]
          [] OTHER ->
                result = [success |-> FALSE,
                          error |-> IF HasError(res) /\ D(res).error # ""
                                    THEN D(res).error
                                    ELSE "Failed to create folder"]

\* a 400 whose error text contains "already exists" inside a longer sentence
C5_Witness ==
    /\ CreateAnswered /\ got[1].status = 400 /\ ~NullBody(got[1])
    /\ HasError(got[1]) /\ Len(D(got[1]).error) > Len("already exists")
    /\ result = [success |-> FALSE, error |-> "Folder already exists"]

(***************************************************************************)
(* C6                                                                      *)
(***************************************************************************)
UpdateFields == {"name", "description", "tags"}

\* C6: the PATCH body of update_video (called with its video_id) has
\* exactly the keys among name, description and tags that the caller
\* supplied, each with the caller's value, and success is true exactly when
\* the upstream status is 200.
C6_AsStated ==
    (/\ tool = "update_video" /\ args.given /\ "video_id" \in DOMAIN A
     /\ Len(sent) >= 1) =>
        LET body == Val(sent[1].body) IN
        /\ sent[1].method = "PATCH"
        /\ DOMAIN body = UpdateFields \cap DOMAIN A
        /\ \A k \in DOMAIN body : body[k] = A[k]
        /\ (pc = "done" /\ ~IsReject(got[1])) =>
              result.success = (got[1].status = 200)

(***************************************************************************)
(* C7                                                                      *)
(***************************************************************************)
SentPerPage == ParseInt(Param(sent[1], "per_page"))

ResultPerPageIsSent ==
    (pc = "done" /\ "per_page" \in DOMAIN result) => result.per_page = SentPerPage

\* C7 as stated: the page size sent by list_videos is 50 when per_page is
\* not given and min(per_page, 100) otherwise, and the result's per_page is
\* the size sent.
C7_AsStated ==
    (tool = "list_videos" /\ Len(sent) >= 1) =>
        /\ SentPerPage <= 100
        /\ SentPerPage = IF "per_page" \in DOMAIN A THEN Min(A.per_page, 100)
                         ELSE 50
        /\ ResultPerPageIsSent

\* C7, amended: the page size sent by list_videos never exceeds 100: it is
\* 50 when per_page is not given or is 0, and min(per_page, 100) otherwise
\* (so 500 goes out as 100); the per_page of the result is the size sent.
C7_PerPage ==
    (tool = "list_videos" /\ Len(sent) >= 1) =>
        /\ SentPerPage <= 100
        /\ SentPerPage = IF "per_page" \in DOMAIN A /\ A.per_page # 0
                         THEN Min(A.per_page, 100)
                         ELSE 50
        /\ ResultPerPageIsSent

\* per_page 500 went out as 100 and came back as 100
C7_Witness ==
    /\ Done("list_videos") /\ args.given
    /\ "per_page" \in DOMAIN A /\ A.per_page = 500
    /\ SentPerPage = 100
    /\ "per_page" \in DOMAIN result /\ result.per_page = 100

(***************************************************************************)
(* C8                                                                      *)
(***************************************************************************)
StatsProbes ==
    <<Req("/me/videos?per_page=1&fields=uri", "GET", Undefined),
      Req("/me/projects?per_page=1", "GET", Undefined),
      Req("/me?fields=upload_quota", "GET", Undefined)>>

StatsKeys ==
    {"total_videos", "total_folders", "storage_used_gb", "storage_max_gb"}

\* what a call that succeeded reports, and the default of one that failed
CountOf(res) ==
    IF Ok2xx(res) /\ "total" \in DOMAIN D(res) THEN D(res).total ELSE 0

BytesOf(res, key) ==
    IF /\ Ok2xx(res) /\ "upload_quota" \in DOMAIN D(res)
       /\ key \in DOMAIN D(res).upload_quota.space
    THEN D(res).upload_quota.space[key] ELSE 0

Summary ==
    result = [total_videos    |-> CountOf(got[1]),
              total_folders   |-> CountOf(got[2]),
              storage_used_gb |-> ToFixed2Gb(BytesOf(got[3], "used")),
              storage_max_gb  |-> ToFixed2Gb(BytesOf(got[3], "max"))]

\* C8 as stated: three calls and, for any combination of them failing, the
\* summary, never an error result (looked at only where no body is JSON
\* null).
C8_AsStated ==
    (Done("get_stats") /\ NoNullBody) =>
        /\ sent = StatsProbes
        /\ DOMAIN result = StatsKeys
        /\ \A i \in 1..2 : CallFailed(got[i]) =>
              (IF i = 1 THEN result.total_videos ELSE result.total_folders) = 0
        /\ CallFailed(got[3]) =>
              result.storage_used_gb = "0.00" /\ result.storage_max_gb = "0.00"

\* a call that ends get_stats early
StatsThrows(res) == IsReject(res) \/ NullBody(res)

\* C8, amended: get_stats issues the video-count probe, the folder-count
\* probe and the quota call in that order and, for any combination of them
\* coming back with a failure status, returns the summary {total_videos,
\* total_folders, storage_used_gb, storage_max_gb}: a field whose call
\* failed takes its zero default (0, "0.00"), the others keep their upstream
\* values.  A call rejected at transport level, or answered with a JSON null
\* body, ends the operation with {error: message}; the calls after it are
\* not issued.
C8_GetStats ==
    Done("get_stats") =>
        /\ Len(sent) = Len(got) /\ Len(sent) \in 1..3
        /\ sent = SubSeq(StatsProbes, 1, Len(sent))
        /\ \A i \in 1..(Len(got) - 1) : ~StatsThrows(got[i])
        /\ IF StatsThrows(LastGot)
           THEN result = [error |-> IF IsReject(LastGot) THEN LastGot.msg
                                    ELSE TypeErr(IF Len(got) = 3
                                                 THEN "upload_quota"
                                                 ELSE "total", "null")]
           ELSE /\ Len(got) = 3
                /\ Summary
                /\ StatusFailed(got[1]) => result.total_videos = 0
                /\ StatusFailed(got[2]) => result.total_folders = 0
                /\ StatusFailed(got[3]) =>
                      /\ result.storage_used_gb = "0.00"
                      /\ result.storage_max_gb = "0.00"

\* the first and the third call fail, the second succeeds
C8_Witness ==
    /\ Done("get_stats") /\ Len(got) = 3
    /\ StatusFailed(got[1]) /\ Ok2xx(got[2]) /\ StatusFailed(got[3])
    /\ result = [total_videos |-> 0, total_folders |-> 3081,
                 storage_used_gb |-> "0.00", storage_max_gb |-> "0.00"]

(***************************************************************************)
(* C9                                                                      *)
(***************************************************************************)
RequiredGiven ==
    CASE tool = "get_video" -> "video_id" \in DOMAIN A
      [] tool = "get_folder_videos" -> "folder_id" \in DOMAIN A
      [] tool = "create_folder" -> "name" \in DOMAIN A
      [] tool = "search_videos" -> "query" \in DOMAIN A
      [] OTHER -> TRUE

RECURSIVE ResourcesOf(_)
ResourcesOf(rs) ==
    IF Len(rs) = 0 THEN <<>>
    ELSE ResourcesOf(SubSeq(rs, 1, Len(rs) - 1))
         \o (IF PageOk(rs[Len(rs)]) THEN ListOf(rs[Len(rs)]) ELSE <<>>)

\* C9: every identifier in a result is the trailing path segment of the
\* upstream resource's self URI, and "" when that URI is absent or empty
\* (looked at for calls that carry their required arguments and, for
\* get_video, for responses that carry the video's URI).
C9_AsStated ==
    (pc = "done" /\ ~IsDef(thrown) /\ RequiredGiven) =>
        CASE tool = "list_folders" ->
                IdsOk(result.folders, ResourcesOf(got))
          [] tool \in {"list_videos", "search_videos"}
             /\ "videos" \in DOMAIN result ->
                IdsOk(result.videos, ListOf(got[1]))
          [] tool = "get_folder_videos" /\ "videos" \in DOMAIN result ->
                IdsOk(result.videos, ListOf(got[2]))
          [] tool = "get_video" /\ "description" \in DOMAIN result
             /\ "uri" \in DOMAIN D(got[1]) ->
                "id" \in DOMAIN result /\ result.id = SelfUriTail(D(got[1]))
          [] tool = "create_folder" /\ result.success ->
                "id" \in DOMAIN result /\ result.id = SelfUriTail(D(got[1]))
          [] OTHER -> TRUE

(***************************************************************************)
(* C10                                                                     *)
(***************************************************************************)
\* C10: within one invocation at most one request is outstanding: request
\* k+1 is issued only after request k has completed.
C10_OneRequestAtATime ==
    /\ Len(inflight) <= 1
    /\ Len(sent) = Len(got) + Len(inflight)
    /\ pc = "await" <=> Len(inflight) = 1

\* get_stats awaiting its third call, the first two completed
C10_Witness ==
    /\ tool = "get_stats" /\ pc = "await"
    /\ Len(sent) = 3 /\ Len(got) = 2 /\ inflight = <<sent[3]>>

====
